---------------------------- MODULE Spec2Model ----------------------------
(***************************************************************************)
(* A model of dcttools.core: depth, kfltr, kfrep, kswap, flaggregate,      *)
(* naggregate and maggregate.                                              *)
(*                                                                         *)
(* A Python dict is an insertion-ordered sequence of entries [k, v] with   *)
(* pairwise distinct keys.  A value is a tagged record: a scalar, None or  *)
(* a nested dict.  A str is a sequence of characters.  Every function is   *)
(* one call: pc = "call" holds the bound arguments, the call's action      *)
(* runs the whole body and leaves pc = "done" (or "raised").  depth is     *)
(* the exception: its while loop runs one iteration per step, because the  *)
(* loop's termination is itself a property of the code.                    *)
(***************************************************************************)
EXTENDS Integers, Sequences, FiniteSets

VARIABLES
    heap,    \* the objects alive during the call, indexed by identity (id)
    args,    \* the bound arguments of the call, by parameter name
    pc,      \* position of the call: "call", "loop", "done", "raised"
    result,  \* the returned value once pc = "done"
    queue,   \* depth: the deque of (id, level) entries
    memo,    \* depth: the set of ids already visited
    level    \* depth: the level of the entry dequeued last

vars == <<heap, args, pc, result, queue, memo, level>>

\* result before the call has returned
NoResult == [tag |-> "unset"]

--------------------------------------------------------------------------
(* Values *)

\* the most mappings a call is given in dcts
MaxDcts == 2

\* attribute names, the keys of flat mappings
Attrs == {"a", "b"}

None == [tag |-> "none"]
Scalar(n) == [tag |-> "scalar", val |-> n]
DictVal(d) == [tag |-> "dict", items |-> d]

\* the scalar values the inputs draw from
Vals == {Scalar(1), Scalar(2)}

\* top-level keys of nested mappings
TopKeys == {"t1", "t2"}

\* isinstance(v, dict)
IsDict(v) == v.tag = "dict"

SeqsUpTo(S, n) == UNION {[1..m -> S] : m \in 0..n}

\* all dicts with at most n entries, keys from KS and values from VS, in
\* every insertion order
OrderedDicts(KS, VS, n) ==
    {d \in SeqsUpTo([k : KS, v : VS], n) :
        \A i, j \in 1..Len(d) : i # j => d[i].k # d[j].k}

--------------------------------------------------------------------------
(* Python's dict *)

DictKeys(d) == {d[i].k : i \in 1..Len(d)}

\* key in d
DictHas(d, key) == \E i \in 1..Len(d) : d[i].k = key

\* d[key], for a key that is present
DictGet(d, key) == d[CHOOSE i \in 1..Len(d) : d[i].k = key].v

\* d[key] = value: an existing key keeps its position, a new key is appended
DictSet(d, key, value) ==
    IF DictHas(d, key)
    THEN [i \in 1..Len(d) |-> IF d[i].k = key THEN [k |-> key, v |-> value] ELSE d[i]]
    ELSE Append(d, [k |-> key, v |-> value])

\* the dict left by d.pop(key)
DictWithout(d, key) == SelectSeq(d, LAMBDA e : e.k # key)

--------------------------------------------------------------------------
(* flaggregate *)

\* a faulty variant of FlaggStore: the first writer wins
FlaggStoreFirstWins(aggregated, key, value) ==
    IF DictHas(aggregated, key) THEN aggregated ELSE DictSet(aggregated, key, value)

\* a faulty variant of FlaggStore: of two values for a key the larger stays
FlaggStoreKeepLarger(aggregated, key, value) ==
    IF DictHas(aggregated, key) /\ DictGet(aggregated, key).val >= value.val
    THEN aggregated
    ELSE DictSet(aggregated, key, value)

\* aggregated[key] = value
FlaggStore(aggregated, key, value) == DictSet(aggregated, key, value)

\* for key, value in dctnry.items(): aggregated[key] = value
RECURSIVE FlaggItems(_, _, _)
FlaggItems(aggregated, dctnry, j) ==
    IF j > Len(dctnry) THEN aggregated
    ELSE FlaggItems(FlaggStore(aggregated, dctnry[j].k, dctnry[j].v), dctnry, j + 1)

\* a faulty variant of FlaggDcts: the loop starts at the second mapping
RECURSIVE FlaggDctsSkipFirst(_, _, _)
FlaggDctsSkipFirst(aggregated, dctnrs, i) ==
    IF i > Len(dctnrs) THEN aggregated
    ELSE FlaggDctsSkipFirst(IF i = 1 THEN aggregated
                            ELSE FlaggItems(aggregated, dctnrs[i], 1),
                            dctnrs, i + 1)

\* for dctnry in dctnrs: ...
RECURSIVE FlaggDcts(_, _, _)
FlaggDcts(aggregated, dctnrs, i) ==
    IF i > Len(dctnrs) THEN aggregated
    ELSE FlaggDcts(FlaggItems(aggregated, dctnrs[i], 1), dctnrs, i + 1)

\* a faulty variant of WithKwargs: the keyword mapping is appended even
\* when it is empty
WithKwargsAlways(dcts, kwargs) == Append(dcts, kwargs)

\* [*dcts, kwargs] if kwargs else dcts
WithKwargs(dcts, kwargs) == IF kwargs # <<>> THEN Append(dcts, kwargs) ELSE dcts

flaggregate(dcts, kwargs) == FlaggDcts(<<>>, WithKwargs(dcts, kwargs), 1)

FlatDicts == OrderedDicts(Attrs, Vals, Cardinality(Attrs))

InitFlaggregate ==
    /\ args \in [dcts : SeqsUpTo(FlatDicts, MaxDcts), kwargs : FlatDicts]
    /\ heap = <<>>
    /\ pc = "call"
    /\ result = NoResult
    /\ queue = <<>>
    /\ memo = {}
    /\ level = 0

FlaggregateCall ==
    /\ pc = "call"
    /\ result' = flaggregate(args.dcts, args.kwargs)
    /\ pc' = "done"
    /\ UNCHANGED <<heap, args, queue, memo, level>>

NextFlaggregate == FlaggregateCall

SpecFlaggregate == InitFlaggregate /\ [][NextFlaggregate]_vars

\* the sources of a flaggregate call in precedence order: dcts[0], ..., kwargs
FlaggSources == Append(args.dcts, args.kwargs)

\* the sources that hold key
FlaggHolders(key) == {i \in 1..Len(FlaggSources) : DictHas(FlaggSources[i], key)}

SetMax(S) == CHOOSE x \in S : \A y \in S : y <= x

\* C2: flaggregate is a left-to-right last-writer-wins fold: the result's key
\* set is the union of the key sets of all mappings in dcts and of kwargs, no
\* key occurs twice, and every key holds the value of the last source (in the
\* order dcts[0], dcts[1], ..., kwargs) that contains it.
C2_FlaggregateLastWriterWins ==
    pc = "done" =>
        /\ DictKeys(result) = UNION {DictKeys(FlaggSources[i]) : i \in 1..Len(FlaggSources)}
        /\ \A i, j \in 1..Len(result) : i # j => result[i].k # result[j].k
        /\ \A key \in DictKeys(result) :
              DictGet(result, key) = DictGet(FlaggSources[SetMax(FlaggHolders(key))], key)

\* a call has returned in which some key is held by an entry of dcts and by
\* kwargs with different values
C2_Witness ==
    /\ pc = "done"
    /\ \E key \in DictKeys(args.kwargs) : \E i \in 1..Len(args.dcts) :
          /\ DictHas(args.dcts[i], key)
          /\ DictGet(args.dcts[i], key) # DictGet(args.kwargs, key)

--------------------------------------------------------------------------
(* flaggregate called on the mappings A, B and C in several groupings *)

InitFlaggLaws ==
    /\ args \in [A : FlatDicts, B : FlatDicts, C : FlatDicts]
    /\ heap = <<>>
    /\ pc = "call"
    /\ result = NoResult
    /\ queue = <<>>
    /\ memo = {}
    /\ level = 0

\* flaggregate([A, B, C]), flaggregate([flaggregate([A, B]), C]),
\* flaggregate([A, flaggregate([B, C])]), flaggregate([A, B]) and
\* flaggregate([B, A])
FlaggLawsCall ==
    /\ pc = "call"
    /\ result' = [abc |-> flaggregate(<<args.A, args.B, args.C>>, <<>>),
                  ab_c |-> flaggregate(<<flaggregate(<<args.A, args.B>>, <<>>), args.C>>, <<>>),
                  a_bc |-> flaggregate(<<args.A, flaggregate(<<args.B, args.C>>, <<>>)>>, <<>>),
                  ab |-> flaggregate(<<args.A, args.B>>, <<>>),
                  ba |-> flaggregate(<<args.B, args.A>>, <<>>)]
    /\ pc' = "done"
    /\ UNCHANGED <<heap, args, queue, memo, level>>

NextFlaggLaws == FlaggLawsCall

SpecFlaggLaws == InitFlaggLaws /\ [][NextFlaggLaws]_vars

\* d == e of two Python dicts: the same keys with the same values, in any
\* order
DictEq(d, e) == {<<d[i].k, d[i].v>> : i \in 1..Len(d)} = {<<e[i].k, e[i].v>> : i \in 1..Len(e)}

\* C19: flaggregate is associative in effect: for all flat mappings A, B, C,
\* flaggregate([flaggregate([A, B]), C]) equals flaggregate([A, B, C]), and
\* so does flaggregate([A, flaggregate([B, C])]).
C19_FlaggregateAssociative ==
    pc = "done" =>
        /\ DictEq(result.ab_c, result.abc)
        /\ DictEq(result.a_bc, result.abc)

\* the calls have returned for mappings A, B and C that share a key under
\* which C holds another value than A and B
C19_Witness ==
    /\ pc = "done"
    /\ \E key \in DictKeys(args.A) \cap DictKeys(args.B) \cap DictKeys(args.C) :
          /\ DictGet(args.A, key) # DictGet(args.C, key)
          /\ DictGet(args.B, key) # DictGet(args.C, key)
          /\ DictGet(result.abc, key) = DictGet(args.C, key)

\* A and B share a key
FlaggShareKey == DictKeys(args.A) \cap DictKeys(args.B) # {}

\* A and B hold different values under a key they share
FlaggConflict ==
    \E key \in DictKeys(args.A) \cap DictKeys(args.B) :
        DictGet(args.A, key) # DictGet(args.B, key)

\* C20 as claimed: flaggregate is not commutative: for all flat mappings A
\* and B that share at least one key, flaggregate([A, B]) differs from
\* flaggregate([B, A]).
C20_FlaggregateNotCommutative ==
    (pc = "done" /\ FlaggShareKey) => ~DictEq(result.ab, result.ba)

\* C20 as amended: for all flat mappings A and B that hold different values
\* under at least one key they share, flaggregate([A, B]) differs from
\* flaggregate([B, A]).
C20_FlaggregateNotCommutativeOnConflict ==
    (pc = "done" /\ FlaggConflict) => ~DictEq(result.ab, result.ba)

\* the calls have returned for an A and a B that share one key with
\* different values and another with the same value
C20_Witness ==
    /\ pc = "done"
    /\ FlaggConflict
    /\ \E key \in DictKeys(args.A) \cap DictKeys(args.B) :
          DictGet(args.A, key) = DictGet(args.B, key)
    /\ ~DictEq(result.ab, result.ba)

--------------------------------------------------------------------------
(* naggregate *)

\* a faulty variant of NaggStore: a later source replaces the whole inner mapping
NaggStoreShallow(aggregated, tlky, key, value) ==
    DictSet(aggregated, tlky, DictVal(<<[k |-> key, v |-> value]>>))

\* aggregated[tlky][key] = value, aggregated being a defaultdict(dict)
NaggStore(aggregated, tlky, key, value) ==
    LET inner == IF DictHas(aggregated, tlky) THEN DictGet(aggregated, tlky).items ELSE <<>>
    IN  DictSet(aggregated, tlky, DictVal(DictSet(inner, key, value)))

\* for key, value in dctnry[tlky].items(): aggregated[tlky][key] = value
RECURSIVE NaggItems(_, _, _, _)
NaggItems(aggregated, tlky, items, j) ==
    IF j > Len(items) THEN aggregated
    ELSE NaggItems(NaggStore(aggregated, tlky, items[j].k, items[j].v), tlky, items, j + 1)

\* for tlky in dctnry: ...
RECURSIVE NaggTlkys(_, _, _)
NaggTlkys(aggregated, dctnry, t) ==
    IF t > Len(dctnry) THEN aggregated
    ELSE NaggTlkys(NaggItems(aggregated, dctnry[t].k, dctnry[t].v.items, 1), dctnry, t + 1)

\* for dctnry in nstd_dcts: ...
RECURSIVE NaggDcts(_, _, _)
NaggDcts(aggregated, nstd_dcts, i) ==
    IF i > Len(nstd_dcts) THEN aggregated
    ELSE NaggDcts(NaggTlkys(aggregated, nstd_dcts[i], 1), nstd_dcts, i + 1)

naggregate(nstd_dcts) == NaggDcts(<<>>, nstd_dcts, 1)

\* the dict that holds the keys of f, inserted in the order they have in ks
DictOf(ks, f) ==
    LET sub == SelectSeq(ks, LAMBDA x : x \in DOMAIN f)
    IN  [j \in 1..Len(sub) |-> [k |-> sub[j], v |-> f[sub[j]]]]

\* all dicts with keys among those of ks and values from VS, the keys
\* inserted in the order they have in ks
SortedDicts(ks, VS) ==
    {DictOf(ks, f) : f \in UNION {[S -> VS] : S \in SUBSET {ks[i] : i \in 1..Len(ks)}}}

\* the most mappings a call is given in nstd_dcts
MaxNstdDcts == 2

\* depth-1 mappings, top-level keys to flat mappings, all of whose inner
\* values are value
NestedDicts(value) ==
    SortedDicts(<<"t1", "t2">>, {DictVal(d) : d \in SortedDicts(<<"a", "b">>, {value})})

\* nstd with every inner value replaced by value
NestedWith(nstd, value) ==
    [t \in 1..Len(nstd) |->
        [k |-> nstd[t].k,
         v |-> DictVal([j \in 1..Len(nstd[t].v.items) |->
                           [k |-> nstd[t].v.items[j].k, v |-> value]])]]

\* The values are opaque to naggregate.  The inner values of the i-th
\* mapping of nstd_dcts are all i, so that the source of every value of the
\* result shows.
InitNaggregate ==
    /\ \E shapes \in SeqsUpTo(NestedDicts(Scalar(0)), MaxNstdDcts) :
          args = [nstd_dcts |-> [i \in 1..Len(shapes) |-> NestedWith(shapes[i], Scalar(i))]]
    /\ heap = <<>>
    /\ pc = "call"
    /\ result = NoResult
    /\ queue = <<>>
    /\ memo = {}
    /\ level = 0

NaggregateCall ==
    /\ pc = "call"
    /\ result' = naggregate(args.nstd_dcts)
    /\ pc' = "done"
    /\ UNCHANGED <<heap, args, queue, memo, level>>

NextNaggregate == NaggregateCall

SpecNaggregate == InitNaggregate /\ [][NextNaggregate]_vars

\* the sources of a naggregate call that hold top-level key tlky
NaggTopHolders(tlky) ==
    {i \in 1..Len(args.nstd_dcts) : DictHas(args.nstd_dcts[i], tlky)}

\* the sources of a naggregate call that hold key under top-level key tlky
NaggHolders(tlky, key) ==
    {i \in NaggTopHolders(tlky) : DictHas(DictGet(args.nstd_dcts[i], tlky).items, key)}

\* C3: naggregate is a deep merge one level down: for every top-level key of
\* the result, the inner mapping's keys are the union of the inner keys of
\* every source that has that top-level key, and each inner key holds the
\* value of the last source that has that (top-level key, inner key) pair.
C3_NaggregateDeepMerge ==
    pc = "done" =>
        \A tlky \in DictKeys(result) :
            LET inner == DictGet(result, tlky)
            IN  /\ IsDict(inner)
                /\ DictKeys(inner.items) =
                       UNION {DictKeys(DictGet(args.nstd_dcts[i], tlky).items) :
                                  i \in NaggTopHolders(tlky)}
                /\ \A key \in DictKeys(inner.items) :
                      DictGet(inner.items, key) =
                          DictGet(DictGet(args.nstd_dcts[SetMax(NaggHolders(tlky, key))],
                                          tlky).items, key)

\* a call has returned in which an inner key given only by an earlier source
\* sits under a top-level key that a later source has too, with another
\* inner key that the later source overwrites
C3_Witness ==
    /\ pc = "done"
    /\ \E tlky \in TopKeys : \E i, j \in NaggTopHolders(tlky) :
          /\ i < j
          /\ \E key \in DictKeys(DictGet(args.nstd_dcts[i], tlky).items) :
                /\ ~DictHas(DictGet(args.nstd_dcts[j], tlky).items, key)
                /\ DictHas(DictGet(result, tlky).items, key)
          /\ \E key \in DictKeys(DictGet(args.nstd_dcts[i], tlky).items) :
                /\ DictHas(DictGet(args.nstd_dcts[j], tlky).items, key)
                /\ DictGet(DictGet(args.nstd_dcts[j], tlky).items, key)
                      # DictGet(DictGet(args.nstd_dcts[i], tlky).items, key)

\* C16: naggregate's result contains all top-level keys of its sources: its
\* top-level key set is the union of the top-level keys of every mapping in
\* nstd_dcts, a key whose inner mapping is empty in every source included.
C16_NaggregateTopKeys ==
    pc = "done" =>
        DictKeys(result) =
            UNION {DictKeys(args.nstd_dcts[i]) : i \in 1..Len(args.nstd_dcts)}

--------------------------------------------------------------------------
(* kswap *)

\* a faulty variant of KswapStore: the inner mapping is replaced, not updated
KswapStoreReplace(key_swapped, subkey, tlkey, value) ==
    DictSet(key_swapped, subkey, DictVal(<<[k |-> tlkey, v |-> value]>>))

\* a faulty variant of KswapStore: only the first outer key of a subkey is
\* stored
KswapStoreSetDefault(key_swapped, subkey, tlkey, value) ==
    IF DictHas(key_swapped, subkey) THEN key_swapped
    ELSE DictSet(key_swapped, subkey, DictVal(<<[k |-> tlkey, v |-> value]>>))

\* key_swapped[subkey].update({tlkey: value}), key_swapped being a
\* defaultdict(dict)
KswapStore(key_swapped, subkey, tlkey, value) ==
    LET inner == IF DictHas(key_swapped, subkey)
                 THEN DictGet(key_swapped, subkey).items ELSE <<>>
    IN  DictSet(key_swapped, subkey, DictVal(DictSet(inner, tlkey, value)))

\* for subkey, value in nstd_dct[tlkey].items(): ...
RECURSIVE KswapItems(_, _, _, _)
KswapItems(key_swapped, tlkey, items, j) ==
    IF j > Len(items) THEN key_swapped
    ELSE KswapItems(KswapStore(key_swapped, items[j].k, tlkey, items[j].v),
                    tlkey, items, j + 1)

\* for tlkey in nstd_dct.keys(): if isinstance(nstd_dct[tlkey], dict): ...
RECURSIVE KswapTlkeys(_, _, _)
KswapTlkeys(key_swapped, nstd_dct, t) ==
    IF t > Len(nstd_dct) THEN key_swapped
    ELSE KswapTlkeys(IF IsDict(nstd_dct[t].v)
                     THEN KswapItems(key_swapped, nstd_dct[t].k, nstd_dct[t].v.items, 1)
                     ELSE key_swapped,
                     nstd_dct, t + 1)

kswap(nstd_dct) == KswapTlkeys(<<>>, nstd_dct, 1)

\* flat mappings over Attrs, as values of a nested mapping
FlatDictVals == {DictVal(d) : d \in SortedDicts(<<"a", "b">>, Vals)}

\* outer keys of kswap's argument
OuterKeys == {"o1", "o2", "o3"}

InitKswap ==
    /\ args \in [nstd_dct : OrderedDicts(OuterKeys, Vals \cup FlatDictVals, Cardinality(OuterKeys))]
    /\ heap = <<>>
    /\ pc = "call"
    /\ result = NoResult
    /\ queue = <<>>
    /\ memo = {}
    /\ level = 0

KswapCall ==
    /\ pc = "call"
    /\ result' = kswap(args.nstd_dct)
    /\ pc' = "done"
    /\ UNCHANGED <<heap, args, queue, memo, level>>

NextKswap == KswapCall

SpecKswap == InitKswap /\ [][NextKswap]_vars

\* the triples (outer key, inner key, value) of the entries of d whose
\* value is a mapping
NestedTriples(d) ==
    UNION {{<<d[x].k, d[x].v.items[y].k, d[x].v.items[y].v>> : y \in 1..Len(d[x].v.items)}
           : x \in {z \in 1..Len(d) : IsDict(d[z].v)}}

\* no key occurs twice in d
UniqueKeys(d) == \A i, j \in 1..Len(d) : i # j => d[i].k # d[j].k

\* C7: kswap transposes a nested mapping: result[i][o] = v holds exactly for
\* the triples (o, i, v) such that o is an outer key whose value is a mapping
\* and (i, v) an entry of it; the result's keys are the union of those inner
\* keys, entries whose value is not a mapping contribute nothing, and the
\* result is empty when no outer value is a mapping.
C7_KswapTransposes ==
    pc = "done" =>
        /\ UniqueKeys(result)
        /\ \A x \in 1..Len(result) : IsDict(result[x].v) /\ UniqueKeys(result[x].v.items)
        /\ NestedTriples(result) =
               {<<tr[2], tr[1], tr[3]>> : tr \in NestedTriples(args.nstd_dct)}
        /\ DictKeys(result) = {tr[2] : tr \in NestedTriples(args.nstd_dct)}
        /\ (\A x \in 1..Len(args.nstd_dct) : ~IsDict(args.nstd_dct[x].v)) => result = <<>>

\* a call has returned whose argument holds a scalar under one outer key and
\* mappings under two others that share an inner key, so that one inner
\* mapping of the result has two entries
C7_Witness ==
    /\ pc = "done"
    /\ \E x \in 1..Len(args.nstd_dct) : ~IsDict(args.nstd_dct[x].v)
    /\ \E x \in 1..Len(result) : Len(result[x].v.items) = 2

--------------------------------------------------------------------------
(* kswap applied to its own result *)

\* kswap(nstd_dct) and kswap(kswap(nstd_dct))
KswapTwiceCall ==
    /\ pc = "call"
    /\ result' = [once |-> kswap(args.nstd_dct), twice |-> kswap(kswap(args.nstd_dct))]
    /\ pc' = "done"
    /\ UNCHANGED <<heap, args, queue, memo, level>>

NextKswapTwice == KswapTwiceCall

SpecKswapTwice == InitKswap /\ [][NextKswapTwice]_vars

\* every outer value of d is a mapping
AllMappings(d) == \A x \in 1..Len(d) : IsDict(d[x].v)

\* every outer value of d is a mapping with at least one entry
AllNonEmptyMappings(d) == \A x \in 1..Len(d) : IsDict(d[x].v) /\ d[x].v.items # <<>>

\* no two outer keys of d share an inner key with conflicting values
NoConflict(d) ==
    \A tr, ts \in NestedTriples(d) : (tr[1] # ts[1] /\ tr[2] = ts[2]) => tr[3] = ts[3]

\* kswap(kswap(x)) has the outer keys, inner keys and values of x
KswapRestored ==
    /\ DictKeys(result.twice) = DictKeys(args.nstd_dct)
    /\ AllMappings(result.twice)
    /\ NestedTriples(result.twice) = NestedTriples(args.nstd_dct)

\* C21 as claimed: kswap round-trips on depth-1 input: for every mapping x
\* whose outer values are all mappings, kswap(kswap(x)) has the same outer
\* keys, inner keys and values as x whenever no two outer keys share an
\* inner key with conflicting values.
C21_KswapRoundTrip ==
    (pc = "done" /\ AllMappings(args.nstd_dct) /\ NoConflict(args.nstd_dct))
        => KswapRestored

\* C21 as amended: for every mapping x whose outer values are all mappings
\* with at least one entry, kswap(kswap(x)) has the same outer keys, inner
\* keys and values as x whenever no two outer keys share an inner key with
\* conflicting values.
C21_KswapRoundTripNonEmpty ==
    (pc = "done" /\ AllNonEmptyMappings(args.nstd_dct) /\ NoConflict(args.nstd_dct))
        => KswapRestored

\* the calls have returned for an x of several outer keys, all non-empty
\* mappings, two of which share an inner key with the same value
C21_Witness ==
    /\ pc = "done"
    /\ AllNonEmptyMappings(args.nstd_dct)
    /\ NoConflict(args.nstd_dct)
    /\ \E tr, ts \in NestedTriples(args.nstd_dct) : tr[1] # ts[1] /\ tr[2] = ts[2]
    /\ \E x \in 1..Len(result.once) : Len(result.once[x].v.items) >= 2
    /\ KswapRestored

--------------------------------------------------------------------------
(* Python's str: a sequence of characters *)

Chars == {"a", "b"}

\* the keys of the mappings given to kfltr and kfrep
StrKeys == [1..1 -> Chars] \cup [1..2 -> Chars]

\* the strings given as fltr, fnd and rplc
Strs == {<<>>} \cup StrKeys

\* sub in s
IsSubstr(sub, s) ==
    \E i \in 0..(Len(s) - Len(sub)) : SubSeq(s, i + 1, i + Len(sub)) = sub

\* s.replace(old, new): the occurrences of old are replaced from the left,
\* none overlapping; an empty old matches before every character and at
\* the end
RECURSIVE StrReplaceFrom(_, _, _, _)
StrReplaceFrom(s, old, new, i) ==
    IF old = <<>>
    THEN IF i > Len(s) THEN new
         ELSE new \o <<s[i]>> \o StrReplaceFrom(s, old, new, i + 1)
    ELSE IF i > Len(s) THEN <<>>
         ELSE IF i + Len(old) - 1 <= Len(s) /\ SubSeq(s, i, i + Len(old) - 1) = old
              THEN new \o StrReplaceFrom(s, old, new, i + Len(old))
              ELSE <<s[i]>> \o StrReplaceFrom(s, old, new, i + 1)

StrReplace(s, old, new) == StrReplaceFrom(s, old, new, 1)

--------------------------------------------------------------------------
(* kfltr *)

\* a faulty variant of KfltrKeeps: the exceptions are ignored
KfltrKeepsNoXcptns(key, fltr, xcptns) == IsSubstr(fltr, key)

\* fltr in key or key in xcptns
KfltrKeeps(key, fltr, xcptns) == IsSubstr(fltr, key) \/ key \in xcptns

\* for key, value in dctnry.items(): if ...: tmp_dct.update({key: value})
RECURSIVE KfltrItems(_, _, _, _, _)
KfltrItems(tmp_dct, dctnry, fltr, xcptns, j) ==
    IF j > Len(dctnry) THEN tmp_dct
    ELSE KfltrItems(IF KfltrKeeps(dctnry[j].k, fltr, xcptns)
                    THEN DictSet(tmp_dct, dctnry[j].k, dctnry[j].v)
                    ELSE tmp_dct,
                    dctnry, fltr, xcptns, j + 1)

\* for dctnry in [*dcts, kwargs] if kwargs else dcts: ...; filtered.append(tmp_dct)
kfltr(dcts, fltr, xcptns, kwargs) ==
    LET dctnrs == WithKwargs(dcts, kwargs)
    IN  [i \in 1..Len(dctnrs) |-> KfltrItems(<<>>, dctnrs[i], fltr, xcptns, 1)]

\* the most entries of a mapping given to kfltr and kfrep
MaxItems == 2

\* the sequences over S without repetition, of length at most n
InjectiveSeqs(S, n) ==
    {q \in SeqsUpTo(S, n) : \A i, j \in 1..Len(q) : i # j => q[i] # q[j]}

\* mappings with string keys; the value of the entry inserted j-th is j
StrDicts ==
    {[j \in 1..Len(ks) |-> [k |-> ks[j], v |-> Scalar(j)]] : ks \in InjectiveSeqs(StrKeys, MaxItems)}

\* the ad hoc keyword mappings: at most one pair
KwDicts == {d \in StrDicts : Len(d) <= 1}

\* the collections given as xcptns
Xcptns == {{}} \cup {{key} : key \in StrKeys}

InitKfltr ==
    /\ args \in [dcts : SeqsUpTo(StrDicts, 1), fltr : Strs,
                 xcptns : Xcptns, kwargs : KwDicts]
    /\ heap = <<>>
    /\ pc = "call"
    /\ result = NoResult
    /\ queue = <<>>
    /\ memo = {}
    /\ level = 0

KfltrCall ==
    /\ pc = "call"
    /\ result' = kfltr(args.dcts, args.fltr, args.xcptns, args.kwargs)
    /\ pc' = "done"
    /\ UNCHANGED <<heap, args, queue, memo, level>>

NextKfltr == KfltrCall

SpecKfltr == InitKfltr /\ [][NextKfltr]_vars

\* the entries of d, as a set
Entries(d) == {d[i] : i \in 1..Len(d)}

\* the entries of d that the claim lets through the filter
Matching(d) ==
    {e \in Entries(d) : IsSubstr(args.fltr, e.k) \/ e.k \in args.xcptns}

\* C6: kfltr keeps exactly the matching entries: the output of every input
\* mapping (dcts[i] at position i, the keyword mapping, if not empty, last)
\* holds an entry (k, v) iff (k, v) is an entry of the input and k contains
\* fltr or is listed in xcptns; no value is changed and no key is added.
C6_KfltrKeepsMatching ==
    pc = "done" =>
        /\ Len(result) >= Len(args.dcts)
        /\ \A i \in 1..Len(args.dcts) :
              UniqueKeys(result[i]) /\ Entries(result[i]) = Matching(args.dcts[i])
        /\ args.kwargs # <<>> =>
              /\ Len(result) = Len(args.dcts) + 1
              /\ UniqueKeys(result[Len(result)])
              /\ Entries(result[Len(result)]) = Matching(args.kwargs)

\* a call has returned that dropped an entry of a mapping, kept another of
\* the same mapping because its key contains fltr, and kept a keyword pair
\* only because its key is listed in xcptns
C6_Witness ==
    /\ pc = "done"
    /\ \E i \in 1..Len(args.dcts) :
          /\ Len(args.dcts[i]) = 2
          /\ Len(result[i]) = 1
          /\ IsSubstr(args.fltr, result[i][1].k)
    /\ \E e \in Entries(args.kwargs) :
          /\ ~IsSubstr(args.fltr, e.k)
          /\ e.k \in args.xcptns
          /\ e \in Entries(result[Len(result)])

--------------------------------------------------------------------------
(* kfrep.  The mappings are objects of the heap: heap[id] is the content of *)
(* the dict with identity id, args.dcts and the result hold identities.     *)

\* a faulty variant of KfrepWorkingCopy: the input itself is renamed in place
KfrepWorkingCopyAlias(h, src) == [heap |-> h, id |-> src]

\* dctnry = dctnry.copy(): a new object with the entries of src
KfrepWorkingCopy(h, src) == [heap |-> Append(h, h[src]), id |-> Len(h) + 1]

\* fnd in key and key not in xcptns
KfrepRenames(key, fnd, xcptns) == IsSubstr(fnd, key) /\ key \notin xcptns

\* a faulty variant of KfrepMove: a rename onto a key that is present drops
\* that entry instead of overwriting it
KfrepMoveDropsTaken(st, w, original_key, fnd, rplc) ==
    IF ~DictHas(st.heap[w], original_key)
    THEN [st EXCEPT !.raised = TRUE]
    ELSE LET value == DictGet(st.heap[w], original_key)
             popped == DictWithout(st.heap[w], original_key)
             key == StrReplace(original_key, fnd, rplc)
         IN  [st EXCEPT !.heap[w] = IF DictHas(popped, key) THEN DictWithout(popped, key)
                                    ELSE DictSet(popped, key, value),
                        !.popped = Append(@, [dct |-> w, key |-> original_key])]

\* dctnry[key.replace(fnd, rplc)] = dctnry.pop(original_key) on the object w;
\* pop raises KeyError when the key is gone; popped lists the keys popped
KfrepMove(st, w, original_key, fnd, rplc) ==
    IF ~DictHas(st.heap[w], original_key)
    THEN [st EXCEPT !.raised = TRUE]
    ELSE LET value == DictGet(st.heap[w], original_key)
             popped == DictWithout(st.heap[w], original_key)
         IN  [st EXCEPT !.heap[w] = DictSet(popped, StrReplace(original_key, fnd, rplc), value),
                        !.popped = Append(@, [dct |-> w, key |-> original_key])]

\* for key in dctnry.copy().keys(): if ...: ...; keys is the snapshot
RECURSIVE KfrepKeys(_, _, _, _, _, _, _)
KfrepKeys(st, w, keys, j, fnd, rplc, xcptns) ==
    IF j > Len(keys) \/ st.raised THEN st
    ELSE KfrepKeys(IF KfrepRenames(keys[j], fnd, xcptns)
                   THEN KfrepMove(st, w, keys[j], fnd, rplc)
                   ELSE st,
                   w, keys, j + 1, fnd, rplc, xcptns)

\* one iteration of the loop over the mappings: copy, rename, append
KfrepOne(st, src, fnd, rplc, xcptns) ==
    LET cp == KfrepWorkingCopy(st.heap, src)
        keys == [j \in 1..Len(cp.heap[cp.id]) |-> cp.heap[cp.id][j].k]
        done == KfrepKeys([st EXCEPT !.heap = cp.heap], cp.id, keys, 1, fnd, rplc, xcptns)
    IN  IF done.raised THEN done
        ELSE [done EXCEPT !.frepped = Append(@, cp.id)]

\* for dctnry in [*dcts, kwargs] if kwargs else dcts: ...
RECURSIVE KfrepDcts(_, _, _, _, _, _)
KfrepDcts(st, dctnrs, i, fnd, rplc, xcptns) ==
    IF i > Len(dctnrs) \/ st.raised THEN st
    ELSE KfrepDcts(KfrepOne(st, dctnrs[i], fnd, rplc, xcptns),
                   dctnrs, i + 1, fnd, rplc, xcptns)

\* the heap, the returned list, whether the call raised and the keys popped
kfrep(h, dcts, fnd, rplc, xcptns, kwargs) ==
    KfrepDcts([heap |-> h, frepped |-> <<>>, raised |-> FALSE, popped |-> <<>>],
              IF h[kwargs] # <<>> THEN Append(dcts, kwargs) ELSE dcts,
              1, fnd, rplc, xcptns)

\* identities of the caller's mapping, of the mapping the caller unpacks
\* as keyword arguments, and of the kwargs dict the call binds
CallerDct == 1
CallerKwargs == 2
BoundKwargs == 3

InitKfrep ==
    /\ \E d \in StrDicts, kw \in KwDicts : heap = <<d, kw, kw>>
    /\ args \in [dcts : SeqsUpTo({CallerDct}, 1), fnd : Strs,
                 rplc : Strs, xcptns : Xcptns, kwargs : {BoundKwargs}]
    /\ args.dcts = <<>> => heap[CallerDct] = <<>>
    /\ pc = "call"
    /\ result = NoResult
    /\ queue = <<>>
    /\ memo = {}
    /\ level = 0

KfrepCall ==
    /\ pc = "call"
    /\ \E ret \in {kfrep(heap, args.dcts, args.fnd, args.rplc, args.xcptns, args.kwargs)} :
           /\ heap' = ret.heap
           /\ result' = IF ret.raised THEN NoResult ELSE ret.frepped
           /\ pc' = IF ret.raised THEN "raised" ELSE "done"
           /\ queue' = ret.popped
    /\ UNCHANGED <<args, memo, level>>

NextKfrep == KfrepCall

SpecKfrep == InitKfrep /\ [][NextKfrep]_vars

\* the mappings a kfrep call was given, in the order of its outputs
KfrepInputs ==
    IF heap[CallerKwargs] # <<>> THEN Append(args.dcts, CallerKwargs) ELSE args.dcts

\* the name the claim gives key in the output
NewName(key) ==
    IF IsSubstr(args.fnd, key) /\ key \notin args.xcptns
    THEN StrReplace(key, args.fnd, args.rplc)
    ELSE key

\* the new names of the keys of d are pairwise distinct
DistinctNewNames(d) ==
    \A i, j \in 1..Len(d) : i # j => NewName(d[i].k) # NewName(d[j].k)

\* C4: kfrep renames keys and keeps values: for every input mapping whose
\* keys have pairwise distinct new names and every key k of it, the output
\* mapping holds the input's value of k under k with all occurrences of fnd
\* replaced by rplc if k contains fnd and is not in xcptns, and under k
\* otherwise.
C4_KfrepRenamesKeepsValues ==
    pc = "done" =>
        \A i \in 1..Len(KfrepInputs) :
            LET d == heap[KfrepInputs[i]]
                out == heap[result[i]]
            IN  DistinctNewNames(d) =>
                    \A e \in Entries(d) :
                        /\ DictHas(out, NewName(e.k))
                        /\ DictGet(out, NewName(e.k)) = e.v

\* C5: kfrep never mutates its inputs: a call leaves every mapping that
\* existed before it (the mappings of dcts, the caller's keyword mapping)
\* with the keys and values it had, whether or not a key was renamed.
C5_KfrepKeepsInputs ==
    [][\A id \in 1..Len(heap) : heap'[id] = heap[id]]_vars

\* a call has returned that renamed a key of the mapping in dcts and a key
\* of the keyword mapping
C5_Witness ==
    /\ pc = "done"
    /\ Len(result) = 2
    /\ DictKeys(heap[result[1]]) # DictKeys(heap[CallerDct])
    /\ DictKeys(heap[result[2]]) # DictKeys(heap[CallerKwargs])

\* the positions of the keys of d whose new name is name
Renamed(d, name) == {p \in 1..Len(d) : NewName(d[p].k) = name}

\* C17: on a key collision in kfrep the later-processed original key wins:
\* when two keys of one input mapping end up under the same key of the
\* output (both renamed to it, or one renamed to the name of a key that is
\* left untouched), the output holds under that key the value of the one
\* that comes later in the input mapping's iteration order.
C17_KfrepCollisionLaterWins ==
    pc = "done" =>
        \A i \in 1..Len(KfrepInputs) :
            LET d == heap[KfrepInputs[i]]
                out == heap[result[i]]
            IN  \A p \in 1..Len(d) :
                    LET name == NewName(d[p].k)
                    IN  Cardinality(Renamed(d, name)) >= 2 =>
                            /\ DictHas(out, name)
                            /\ DictGet(out, name) = d[SetMax(Renamed(d, name))].v

\* C23: kfrep's rename loop never fails on a missing key: the call never
\* raises, whatever fnd, rplc and xcptns are (renames onto another original
\* key or onto the old name included), every key popped from a working copy
\* is a key of the input mapping that contains fnd and is no exception, and
\* no key is popped from the same working copy twice.
C23_KfrepNeverMissesKey ==
    /\ pc # "raised"
    /\ pc = "done" =>
          /\ \A p, q \in 1..Len(queue) : p # q => queue[p] # queue[q]
          /\ \A p \in 1..Len(queue) :
                \E i \in 1..Len(KfrepInputs) :
                    /\ queue[p].dct = result[i]
                    /\ DictHas(heap[KfrepInputs[i]], queue[p].key)
                    /\ KfrepRenames(queue[p].key, args.fnd, args.xcptns)

\* a call has returned that renamed a key onto another original key of the
\* same mapping and popped that key afterwards
C23_Witness ==
    /\ pc = "done"
    /\ \E p, q \in 1..Len(queue) :
          /\ p < q
          /\ queue[p].dct = queue[q].dct
          /\ queue[p].key # queue[q].key
          /\ StrReplace(queue[p].key, args.fnd, args.rplc) = queue[q].key

--------------------------------------------------------------------------
(* The ad hoc keyword mapping of kfltr, kfrep and flaggregate: a call of   *)
(* any of the three.                                                       *)

\* the call is one of kfltr, of kfrep, of flaggregate
IsKfltr == "fltr" \in DOMAIN args
IsKfrep == "fnd" \in DOMAIN args
IsFlaggregate == DOMAIN args = {"dcts", "kwargs"}

\* the exceptions play no part in what is appended: kfrep is called without
InitAdHoc ==
    \/ InitKfltr
    \/ InitKfrep /\ args.xcptns = {}
    \/ InitFlaggregate

AdHocKfltr == IsKfltr /\ KfltrCall

AdHocKfrep == IsKfrep /\ KfrepCall

AdHocFlaggregate == IsFlaggregate /\ FlaggregateCall

NextAdHoc == AdHocKfltr \/ AdHocKfrep \/ AdHocFlaggregate

SpecAdHoc == InitAdHoc /\ [][NextAdHoc]_vars

\* 1 when keyword pairs were given, else 0
AdHocGiven(kwargs) == IF kwargs # <<>> THEN 1 ELSE 0

\* C18: the ad hoc keyword mapping is appended only when non-empty: kfltr
\* and kfrep return len(dcts) outputs when no keyword pairs are given and
\* len(dcts)+1 otherwise, output i derived from dcts[i] and the keyword
\* mapping's output last; flaggregate takes non-empty keyword pairs as the
\* last, highest-precedence source and an empty set as no source.
C18_AdHocAppendedWhenNonEmpty ==
    pc = "done" =>
        /\ IsKfltr =>
              /\ Len(result) = Len(args.dcts) + AdHocGiven(args.kwargs)
              /\ \A i \in 1..Len(args.dcts) : Entries(result[i]) \subseteq Entries(args.dcts[i])
              /\ args.kwargs # <<>> =>
                    Entries(result[Len(result)]) \subseteq Entries(args.kwargs)
        /\ IsKfrep =>
              /\ Len(result) = Len(args.dcts) + AdHocGiven(heap[CallerKwargs])
              /\ \A i \in 1..Len(KfrepInputs) :
                    /\ DictKeys(heap[result[i]]) \subseteq
                           {NewName(key) : key \in DictKeys(heap[KfrepInputs[i]])}
                    /\ (heap[result[i]] = <<>>) = (heap[KfrepInputs[i]] = <<>>)
        /\ IsFlaggregate =>
              /\ \A key \in DictKeys(args.kwargs) :
                    DictHas(result, key) /\ DictGet(result, key) = DictGet(args.kwargs, key)
              /\ args.kwargs = <<>> =>
                    DictKeys(result) = UNION {DictKeys(args.dcts[i]) : i \in 1..Len(args.dcts)}

\* calls of the three functions have returned, kfltr and kfrep with a
\* mapping and keyword pairs and so with two outputs, flaggregate with
\* keyword pairs that override a key of dcts
C18_Witness ==
    /\ pc = "done"
    /\ IsKfltr \/ IsKfrep => (Len(args.dcts) = 1 /\ Len(result) = 2)
    /\ IsFlaggregate =>
          \E key \in DictKeys(args.kwargs) : \E i \in 1..Len(args.dcts) :
              /\ DictHas(args.dcts[i], key)
              /\ DictGet(args.dcts[i], key) # DictGet(args.kwargs, key)

--------------------------------------------------------------------------
(* maggregate *)

\* a faulty variant of MaggNested: the attributes of every top-level key
MaggNestedAll(nested_aggregates, tlky) ==
    FlaggDcts(<<>>, [i \in 1..Len(nested_aggregates) |-> nested_aggregates[i].v.items], 1)

\* nested_aggregates[tlky], nested_aggregates being a defaultdict(dict)
MaggNested(nested_aggregates, tlky) ==
    IF DictHas(nested_aggregates, tlky) THEN DictGet(nested_aggregates, tlky).items ELSE <<>>

\* a faulty variant of MaggResolve: a scalar keyword does not override the nested
\* entry
MaggResolveNestedFirst(tlky, kwarg, aggregates, nested, kwargs) ==
    IF DictHas(nested, kwarg) THEN DictGet(nested, kwarg)
    ELSE IF DictHas(kwargs, kwarg) /\ IsDict(DictGet(kwargs, kwarg))
         THEN IF DictHas(DictGet(kwargs, kwarg).items, tlky)
              THEN DictGet(DictGet(kwargs, kwarg).items, tlky)
              ELSE IF DictHas(aggregates, kwarg) THEN DictGet(aggregates, kwarg) ELSE None
         ELSE IF DictHas(kwargs, kwarg) THEN DictGet(kwargs, kwarg)
              ELSE DictGet(aggregates, kwarg)

\* a faulty variant of MaggResolve: the gap is filled with the keyword
\* mapping itself
MaggResolveNoGap(tlky, kwarg, aggregates, nested, kwargs) ==
    IF DictHas(kwargs, kwarg) /\ IsDict(DictGet(kwargs, kwarg))
    THEN IF DictHas(DictGet(kwargs, kwarg).items, tlky)
         THEN DictGet(DictGet(kwargs, kwarg).items, tlky)
         ELSE IF DictHas(nested, kwarg) THEN DictGet(nested, kwarg)
         ELSE IF DictHas(aggregates, kwarg) THEN DictGet(aggregates, kwarg)
         ELSE DictGet(kwargs, kwarg)
    ELSE IF DictHas(kwargs, kwarg) THEN DictGet(kwargs, kwarg)
         ELSE IF DictHas(nested, kwarg) THEN DictGet(nested, kwarg)
         ELSE DictGet(aggregates, kwarg)

\* the value stored in aggregated[tlky][kwarg]; nested is
\* nested_aggregates[tlky]
MaggResolve(tlky, kwarg, aggregates, nested, kwargs) ==
    IF DictHas(kwargs, kwarg) /\ IsDict(DictGet(kwargs, kwarg))
    THEN \* isinstance(kwargs.get(kwarg), dict)
         IF DictHas(DictGet(kwargs, kwarg).items, tlky)
         THEN DictGet(DictGet(kwargs, kwarg).items, tlky)
         ELSE IF DictHas(nested, kwarg) THEN DictGet(nested, kwarg)
         ELSE IF DictHas(aggregates, kwarg) THEN DictGet(aggregates, kwarg)
         ELSE None
    ELSE IF DictHas(kwargs, kwarg) THEN DictGet(kwargs, kwarg)
         ELSE IF DictHas(nested, kwarg) THEN DictGet(nested, kwarg)
         ELSE DictGet(aggregates, kwarg)

\* aggregated[tlky][kwarg] = value, aggregated being a defaultdict(dict)
MaggStore(aggregated, tlky, kwarg, value) ==
    LET inner == IF DictHas(aggregated, tlky) THEN DictGet(aggregated, tlky).items ELSE <<>>
    IN  DictSet(aggregated, tlky, DictVal(DictSet(inner, kwarg, value)))

\* for kwarg in {**aggregates, **nested_aggregates[tlky], **kwargs}: ...;
\* merged is that dict
RECURSIVE MaggKwargs(_, _, _, _, _, _, _)
MaggKwargs(aggregated, tlky, merged, j, aggregates, nested, kwargs) ==
    IF j > Len(merged) THEN aggregated
    ELSE MaggKwargs(MaggStore(aggregated, tlky, merged[j].k,
                              MaggResolve(tlky, merged[j].k, aggregates, nested, kwargs)),
                    tlky, merged, j + 1, aggregates, nested, kwargs)

\* for tlky in tlkys: ...
RECURSIVE MaggTlkys(_, _, _, _, _, _)
MaggTlkys(aggregated, tlkys, t, aggregates, nested_aggregates, kwargs) ==
    IF t > Len(tlkys) THEN aggregated
    ELSE LET nested == MaggNested(nested_aggregates, tlkys[t])
             merged == FlaggDcts(<<>>, <<aggregates, nested, kwargs>>, 1)
         IN  MaggTlkys(MaggKwargs(aggregated, tlkys[t], merged, 1, aggregates, nested, kwargs),
                       tlkys, t + 1, aggregates, nested_aggregates, kwargs)

maggregate(tlkys, dcts, nstd_dcts, kwargs) ==
    MaggTlkys(<<>>, tlkys, 1, flaggregate(dcts, <<>>), naggregate(nstd_dcts), kwargs)

\* the most keys a call is given in tlkys
MaxTlkys == 2

\* The values are opaque to maggregate.  Every kind of source draws from a
\* value of its own, so that the source of every value of the result shows.
MaggFlatDicts == SortedDicts(<<"a", "b">>, {Scalar(1)})

MaggNestedDicts ==
    SortedDicts(<<"t1", "t2">>, {DictVal(d) : d \in SortedDicts(<<"a", "b">>, {Scalar(2)})})

\* keyword overrides: a scalar, or a mapping keyed by top-level key
MaggKwargDicts ==
    SortedDicts(<<"a", "b">>,
                {Scalar(3)} \cup {DictVal(d) : d \in SortedDicts(<<"t1", "t2">>, {Scalar(4)})})

InitMaggregate ==
    /\ args \in [tlkys : SeqsUpTo(TopKeys, MaxTlkys), dcts : SeqsUpTo(MaggFlatDicts, 1),
                 nstd_dcts : SeqsUpTo(MaggNestedDicts, 1), kwargs : MaggKwargDicts]
    /\ heap = <<>>
    /\ pc = "call"
    /\ result = NoResult
    /\ queue = <<>>
    /\ memo = {}
    /\ level = 0

MaggregateCall ==
    /\ pc = "call"
    /\ result' = maggregate(args.tlkys, args.dcts, args.nstd_dcts, args.kwargs)
    /\ pc' = "done"
    /\ UNCHANGED <<heap, args, queue, memo, level>>

NextMaggregate == MaggregateCall

\* maggregate is the core of the module
Spec == InitMaggregate /\ [][NextMaggregate]_vars

\* D, N[t] and K of a maggregate call
MaggD == flaggregate(args.dcts, <<>>)
MaggN(t) ==
    LET N == naggregate(args.nstd_dcts)
    IN  IF DictHas(N, t) THEN DictGet(N, t).items ELSE <<>>
MaggK == args.kwargs

\* K[a] is a mapping
KIsMapping(a) == DictHas(MaggK, a) /\ IsDict(DictGet(MaggK, a))

\* K[a] is given and is no mapping
KIsScalar(a) == DictHas(MaggK, a) /\ ~IsDict(DictGet(MaggK, a))

\* the value the ranked rule gives attribute a of top-level key t
Ranked(t, a) ==
    CASE KIsMapping(a) /\ DictHas(DictGet(MaggK, a).items, t) -> DictGet(DictGet(MaggK, a).items, t)
      [] KIsScalar(a) -> DictGet(MaggK, a)
      [] ~KIsScalar(a) /\ ~(KIsMapping(a) /\ DictHas(DictGet(MaggK, a).items, t))
            /\ DictHas(MaggN(t), a) -> DictGet(MaggN(t), a)
      [] ~KIsScalar(a) /\ ~(KIsMapping(a) /\ DictHas(DictGet(MaggK, a).items, t))
            /\ ~DictHas(MaggN(t), a) /\ DictHas(MaggD, a) -> DictGet(MaggD, a)
      [] OTHER -> None

\* tlkys as a set
TlkySet == {args.tlkys[i] : i \in 1..Len(args.tlkys)}

\* C1: maggregate resolves every value by the ranked rule: for every t in
\* tlkys and every attribute a of the result for t, result[t][a] is K[a][t]
\* if K[a] is a mapping that contains t; else K[a] if K[a] is given and is
\* not a mapping; else N[t][a] if a is in N[t]; else D[a] if a is in D; else
\* None.
C1_MaggregateRankedRule ==
    pc = "done" =>
        \A t \in TlkySet :
            DictHas(result, t) =>
                \A a \in DictKeys(DictGet(result, t).items) :
                    DictGet(DictGet(result, t).items, a) = Ranked(t, a)

\* a call has returned in which, for one top-level key of tlkys, a scalar
\* keyword overrides an attribute that the nested and the flat sources give
\* too, and a keyword mapping that does not list that key leaves an
\* attribute to the nested source
C1_Witness ==
    /\ pc = "done"
    /\ \E t \in TlkySet : \E a, b \in Attrs :
          /\ KIsScalar(a) /\ DictHas(MaggN(t), a) /\ DictHas(MaggD, a)
          /\ KIsMapping(b) /\ ~DictHas(DictGet(MaggK, b).items, t) /\ DictHas(MaggN(t), b)
          /\ DictGet(DictGet(result, t).items, a) = DictGet(MaggK, a)
          /\ DictGet(DictGet(result, t).items, b) = DictGet(MaggN(t), b)

\* C13: maggregate returns one entry per target key: the set of top-level
\* keys of the result equals the set of keys in tlkys; every t in tlkys has
\* an entry, also when no source supplies an attribute for it, and no
\* top-level key outside tlkys appears.
C13_MaggregateKeySet ==
    pc = "done" => DictKeys(result) = TlkySet

\* C14: for every t in tlkys that has an entry in the result, the attribute
\* key set of result[t] is the union of the keys of D, of N[t] (empty when N
\* has no t) and of kwargs; attributes that N holds only under other
\* top-level keys do not appear under t.
C14_MaggregateAttrUnion ==
    pc = "done" =>
        \A t \in TlkySet :
            DictHas(result, t) =>
                DictKeys(DictGet(result, t).items) =
                    DictKeys(MaggD) \cup DictKeys(MaggN(t)) \cup DictKeys(MaggK)

\* a call has returned an entry for a key of tlkys that lacks an attribute
\* which the nested sources hold under another top-level key
C14_Witness ==
    /\ pc = "done"
    /\ \E t \in TlkySet : \E u \in TopKeys \ {t} : \E a \in DictKeys(MaggN(u)) :
          /\ DictHas(result, t)
          /\ DictKeys(DictGet(result, t).items) # {}
          /\ ~DictHas(DictGet(result, t).items, a)

\* attribute a of top-level key t is a gap: K[a] is a mapping that does not
\* list t, and neither N[t] nor D has a
MaggGap(t, a) ==
    /\ KIsMapping(a)
    /\ ~DictHas(DictGet(MaggK, a).items, t)
    /\ ~DictHas(MaggN(t), a)
    /\ ~DictHas(MaggD, a)

\* C15: maggregate fills gaps with None instead of failing: when kwargs[a]
\* is a mapping that does not list t and a is in neither N[t] nor D, then
\* result[t][a] is None and the call returns; None is produced only in that
\* situation.
C15_MaggregateNoneGaps ==
    pc = "done" =>
        \A t \in TlkySet : \A a \in Attrs :
            /\ MaggGap(t, a) =>
                  /\ DictHas(result, t)
                  /\ DictHas(DictGet(result, t).items, a)
                  /\ DictGet(DictGet(result, t).items, a) = None
            /\ (/\ DictHas(result, t)
                /\ DictHas(DictGet(result, t).items, a)
                /\ DictGet(DictGet(result, t).items, a) = None) => MaggGap(t, a)

\* a call has returned in which one attribute of a key of tlkys is a gap
\* and another attribute of the same key is given by a source
C15_Witness ==
    /\ pc = "done"
    /\ \E t \in TlkySet : \E a, b \in Attrs :
          /\ MaggGap(t, a)
          /\ DictGet(DictGet(result, t).items, a) = None
          /\ DictHas(DictGet(result, t).items, b)
          /\ DictGet(DictGet(result, t).items, b) # None

\* C24: when no keyword override is a mapping, maggregate agrees with the
\* flat merger: for every t in tlkys with an entry in the result, result[t]
\* equals flaggregate([*dcts, N[t], kwargs]), N being naggregate(nstd_dcts)
\* and N[t] empty when absent.
C24_MaggregateIsFlatMerge ==
    (pc = "done" /\ \A a \in Attrs : ~KIsMapping(a)) =>
        \A t \in TlkySet :
            DictHas(result, t) =>
                DictEq(DictGet(result, t).items,
                       flaggregate(args.dcts \o <<MaggN(t), MaggK>>, <<>>))

\* a call without mapping overrides has returned an entry for a top-level
\* key for which one attribute is given by dcts, nstd_dcts and kwargs and
\* another by dcts and nstd_dcts only
C24_Witness ==
    /\ pc = "done"
    /\ \A a \in Attrs : ~KIsMapping(a)
    /\ \E t \in TlkySet :
          /\ DictHas(result, t)
          /\ \E a, b \in Attrs :
                /\ DictHas(MaggD, a) /\ DictHas(MaggN(t), a) /\ DictHas(MaggK, a)
                /\ DictHas(MaggD, b) /\ DictHas(MaggN(t), b) /\ ~DictHas(MaggK, b)

--------------------------------------------------------------------------
(* depth.  heap[id] is the object with identity id: a dict, given by the   *)
(* identities of its values in the order of dict.values() (its keys play   *)
(* no part in depth), or an object that is no dict.                        *)

\* the number of dict objects of the heap
NumDicts == 3

DictIds == 1..NumDicts

\* the identity of the one object that is no dict
ScalarId == NumDicts + 1

ObjIds == DictIds \cup {ScalarId}

\* the values of a dict object: at most two, in the order of their
\* identities
ValueLists ==
    {q \in SeqsUpTo(ObjIds, 2) : \A i, j \in 1..Len(q) : i < j => q[i] < q[j]}

\* isinstance(obj, dict)
DepthIsDict(h, id) == h[id].tag = "dict"

\* a faulty variant of DepthIsMapping: the argument's type is not checked
DepthIsMappingAlways(h, id) == TRUE

\* the guard of the TypeError: isinstance(dct, dict)
DepthIsMapping(h, id) == DepthIsDict(h, id)

\* a faulty variant of DepthSeen: no identity counts as visited
DepthSeenNever(id, visited) == FALSE

\* id_ in memo
DepthSeen(id, visited) == id \in visited

\* a faulty variant of DepthLevel: the level is read after the visited check
DepthLevelAfterCheck(entry, lvl, visited) ==
    IF entry.id \in visited THEN lvl ELSE entry.level

\* level of id_, obj, level = queue.popleft(): read before the visited check
DepthLevel(entry, lvl, visited) == entry.level

\* ((id(v), v, level + 1) for v in obj.values())
DepthChildren(h, id, lvl) ==
    [j \in 1..Len(h[id].vals) |-> [id |-> h[id].vals[j], level |-> lvl + 1]]

InitDepth ==
    /\ \E vals \in [DictIds -> ValueLists] :
          heap = [id \in ObjIds |->
                     IF id \in DictIds THEN [tag |-> "dict", vals |-> vals[id]]
                     ELSE [tag |-> "scalar"]]
    /\ args \in [dct : {1, ScalarId}]
    /\ pc = "call"
    /\ result = NoResult
    /\ queue = <<>>
    /\ memo = {}
    /\ level = 0

\* the type check and the set-up of the queue and of memo
DepthCall ==
    /\ pc = "call"
    /\ IF DepthIsMapping(heap, args.dct)
       THEN /\ queue' = <<[id |-> args.dct, level |-> 1]>>
            /\ pc' = "loop"
       ELSE /\ queue' = queue
            /\ pc' = "raised"
    /\ memo' = {}
    /\ UNCHANGED <<heap, args, result, level>>

\* one iteration of the while loop
DepthLoop ==
    /\ pc = "loop"
    /\ queue # <<>>
    /\ LET entry == Head(queue)
       IN  /\ level' = DepthLevel(entry, level, memo)
           /\ IF DepthSeen(entry.id, memo)
              THEN /\ queue' = Tail(queue)
                   /\ memo' = memo
              ELSE /\ memo' = memo \cup {entry.id}
                   /\ queue' = IF DepthIsDict(heap, entry.id)
                                THEN Tail(queue) \o DepthChildren(heap, entry.id, entry.level)
                                ELSE Tail(queue)
    /\ UNCHANGED <<heap, args, pc, result>>

\* the loop ends on the empty queue: return level - 1
DepthReturn ==
    /\ pc = "loop"
    /\ queue = <<>>
    /\ result' = level - 1
    /\ pc' = "done"
    /\ UNCHANGED <<heap, args, queue, memo, level>>

NextDepth == DepthCall \/ DepthLoop \/ DepthReturn

SpecDepth == InitDepth /\ [][NextDepth]_vars

\* the call runs to its end: a Python call that can take a step takes it
SpecDepthFair == SpecDepth /\ WF_vars(NextDepth)

\* the dict objects among the values of the dict object id
DictKids(h, id) == {h[id].vals[j] : j \in 1..Len(h[id].vals)} \cap DictIds

\* S and every dict object reached from it through values
RECURSIVE Closure(_, _)
Closure(h, S) ==
    LET more == S \cup UNION {DictKids(h, id) : id \in S}
    IN  IF more = S THEN S ELSE Closure(h, more)

\* no mapping reached from root is, directly or through other mappings, a
\* value of itself
Acyclic(h, root) ==
    \A id \in Closure(h, {root}) : id \notin Closure(h, DictKids(h, id))

\* the recursively defined depth: 0 for the empty mapping, and otherwise
\* 1 + the maximum depth of the values that are mappings (1 when none is)
RECURSIVE RecDepth(_, _)
RecDepth(h, id) ==
    IF h[id].vals = <<>> THEN 0
    ELSE 1 + SetMax({0} \cup {RecDepth(h, kid) : kid \in DictKids(h, id)})

\* C8: depth returns the recursively defined depth for every mapping whose
\* object graph has no cycle, also when the same sub-mapping object is
\* referenced from several places at different nesting levels.
C8_DepthIsRecursiveDepth ==
    (pc = "done" /\ Acyclic(heap, args.dct)) => result = RecDepth(heap, args.dct)

\* C9: depth terminates on every finite mapping graph, cyclic ones included:
\* every iteration of the loop either visits a new identity or shortens the
\* queue, an identity is expanded only when it has not been visited, the
\* call returns a non-negative integer on the empty queue, and every call
\* reaches its end.
C9_DepthTerminates ==
    /\ [][
          /\ (pc = "loop" /\ pc' = "loop") =>
                \/ memo' # memo /\ memo \subseteq memo'
                \/ memo' = memo /\ Len(queue') < Len(queue)
          /\ (pc = "loop" /\ pc' = "loop" /\ queue' # Tail(queue)) =>
                /\ Head(queue).id \notin memo
                /\ memo' = memo \cup {Head(queue).id}
          /\ pc' = "done" => (queue = <<>> /\ result' \in Nat)
       ]_vars
    /\ DepthIsDict(heap, args.dct) =>
          <>(pc = "done" /\ queue = <<>> /\ result \in Nat)

\* a call has returned for a mapping that is a value of itself through
\* another mapping
C9_Witness ==
    /\ pc = "done"
    /\ \E id \in DictKids(heap, args.dct) :
          id # args.dct /\ args.dct \in DictKids(heap, id)

\* C10: depth called with an argument that is not a mapping raises the type
\* error before any traversal starts and returns no value; called with a
\* mapping it never raises.
C10_DepthTypeError ==
    /\ ~DepthIsDict(heap, args.dct) =>
          (pc \in {"call", "raised"} /\ queue = <<>> /\ memo = {} /\ result = NoResult)
    /\ DepthIsDict(heap, args.dct) => pc # "raised"

\* a call with an argument that is no mapping has raised
C10_Witness == pc = "raised" /\ ~DepthIsDict(heap, args.dct)

\* the largest level among the entry dequeued last and the entries queued
DepthLargest == SetMax({level} \cup {queue[i].level : i \in 1..Len(queue)})

\* the objects reached from root through at most k values
RECURSIVE DepthWithin(_, _, _)
DepthWithin(h, root, k) ==
    IF k = 0 THEN {root}
    ELSE LET S == DepthWithin(h, root, k - 1)
         IN  S \cup UNION {{h[id].vals[j] : j \in 1..Len(h[id].vals)} : id \in S \cap DictIds}

\* C25: in depth's breadth-first loop the levels of the dequeued entries
\* never decrease (the queue holds its entries in the order of their
\* levels), the level of an entry is taken also when the entry is a repeat
\* that is skipped, the largest level enqueued so far is never lost (it grows
\* with every entry that is enqueued and never falls), and the returned
\* value is that largest level - 1.
C25_DepthLevels ==
    [][
        /\ \A i, j \in 1..Len(queue') : i < j => queue'[i].level <= queue'[j].level
        /\ (pc = "call" /\ pc' = "loop") => DepthLargest' = 1
        /\ (pc = "loop" /\ pc' = "loop") =>
              /\ level' = Head(queue).level
              /\ level' >= level
              /\ DepthLargest' =
                    SetMax({DepthLargest}
                           \cup {queue'[i].level : i \in Len(queue)..Len(queue')})
        /\ pc' = "done" => result' = DepthLargest - 1
    ]_vars

\* a call has returned for a mapping without cycle after every entry of the
\* last level was a repeat: the objects enqueued at that level are shared
\* with a lower level
C25_Witness ==
    /\ pc = "done"
    /\ result >= 1
    /\ Acyclic(heap, args.dct)
    /\ DepthWithin(heap, args.dct, result) = DepthWithin(heap, args.dct, result - 1)

--------------------------------------------------------------------------
(* to_dataframe.  A table is its column labels and its rows, each row a    *)
(* sequence of cells; pandas' inference of column types is left out.       *)

\* the most entries of the mapping given to to_dataframe
MaxLen == 4

\* the largest number of column pairs asked for
MaxColumns == 3

\* the j-th key of the mapping
Key(j) == [tag |-> "key", val |-> j]

\* math.ceil(len(mapping.keys()) / columns)
ToDfLength(n, columns) == (n + columns - 1) \div columns

\* zip_longest(*[iter(items)] * length, fillvalue=fillvalue): the items in
\* chunks of length, taken from position i on, the last chunk filled up;
\* without any iterator (length = 0) nothing is yielded
RECURSIVE ZipLongest(_, _, _, _)
ZipLongest(items, length, fillvalue, i) ==
    IF length = 0 \/ i > Len(items) THEN <<>>
    ELSE <<[p \in 1..length |->
               IF i + p - 1 <= Len(items) THEN items[i + p - 1] ELSE fillvalue]>>
         \o ZipLongest(items, length, fillvalue, i + length)

\* list(zip(*chunks)): row r holds the r-th item of every chunk
Zip(chunks) ==
    IF chunks = <<>> THEN <<>>
    ELSE [r \in 1..Len(chunks[1]) |-> [c \in 1..Len(chunks) |-> chunks[c][r]]]

\* pd.DataFrame(rows): the columns are labelled 0, 1, ...
DataFrame(rows) ==
    [columns |-> IF rows = <<>> THEN <<>> ELSE [c \in 1..Len(rows[1]) |-> c - 1],
     rows |-> rows]

\* pd.concat([a, b], axis="columns") of two frames with the same index
Concat(a, b) ==
    [columns |-> a.columns \o b.columns,
     rows |-> [r \in 1..Len(a.rows) |-> a.rows[r] \o b.rows[r]]]

\* the positions of the columns labelled label, from the left
PositionsOf(columns, label) ==
    SelectSeq([p \in 1..Len(columns) |-> p], LAMBDA p : columns[p] = label)

\* the positions table[labels] selects: for every label in turn, all the
\* columns that carry it
RECURSIVE SelectedPositions(_, _, _)
SelectedPositions(columns, labels, i) ==
    IF i > Len(labels) THEN <<>>
    ELSE PositionsOf(columns, labels[i]) \o SelectedPositions(columns, labels, i + 1)

\* table[labels]: KeyError when a label is not among the columns
SelectColumns(table, labels) ==
    IF \E i \in 1..Len(labels) : PositionsOf(table.columns, labels[i]) = <<>>
    THEN [raised |-> TRUE, table |-> table]
    ELSE LET pos == SelectedPositions(table.columns, labels, 1)
         IN  [raised |-> FALSE,
              table |-> [columns |-> [c \in 1..Len(pos) |-> table.columns[pos[c]]],
                         rows |-> [r \in 1..Len(table.rows) |->
                                      [c \in 1..Len(pos) |-> table.rows[r][pos[c]]]]]]

\* columns * ["key", "value"]
KeyValueLabels(columns) ==
    [c \in 1..(2 * columns) |-> IF c % 2 = 1 THEN "key" ELSE "value"]

\* table.columns = labels: ValueError when the lengths differ
SetColumns(table, labels) ==
    IF Len(labels) # Len(table.columns)
    THEN [raised |-> TRUE, table |-> table]
    ELSE [raised |-> FALSE, table |-> [table EXCEPT !.columns = labels]]

to_dataframe(mapping, columns, fillvalue) ==
    LET length == ToDfLength(Len(mapping), columns)
        keys == Zip(ZipLongest([j \in 1..Len(mapping) |-> mapping[j].k], length, fillvalue, 1))
        values == Zip(ZipLongest([j \in 1..Len(mapping) |-> mapping[j].v], length, fillvalue, 1))
        table == Concat(DataFrame(keys), DataFrame(values))
        sorted == SelectColumns(table, [c \in 1..columns |-> c - 1])
    IN  IF sorted.raised THEN sorted
        ELSE SetColumns(sorted.table, KeyValueLabels(columns))

\* flat mappings with the keys Key(1), Key(2), ... in this order
ToDfMappings ==
    UNION {{[j \in 1..n |-> [k |-> Key(j), v |-> f[j]]] : f \in [1..n -> {Scalar(1), None}]}
           : n \in 0..MaxLen}

InitToDataframe ==
    /\ args \in [mapping : ToDfMappings, columns : 1..MaxColumns,
                 fillvalue : {None, Scalar(0)}]
    /\ heap = <<>>
    /\ pc = "call"
    /\ result = NoResult
    /\ queue = <<>>
    /\ memo = {}
    /\ level = 0

ToDataframeCall ==
    /\ pc = "call"
    /\ LET ret == to_dataframe(args.mapping, args.columns, args.fillvalue)
       IN  /\ result' = IF ret.raised THEN NoResult ELSE ret.table
           /\ pc' = IF ret.raised THEN "raised" ELSE "done"
    /\ UNCHANGED <<heap, args, queue, memo, level>>

NextToDataframe == ToDataframeCall

SpecToDataframe == InitToDataframe /\ [][NextToDataframe]_vars

\* ceil(len(M) / columns) of the call
ToDfRows == ToDfLength(Len(args.mapping), args.columns)

\* the number of chunks of length ToDfRows the entries of M split into
ToDfChunks == IF ToDfRows = 0 THEN 0 ELSE ToDfLength(Len(args.mapping), ToDfRows)

\* C11: to_dataframe produces, for every flat mapping M and every positive
\* columns, a table with exactly 2*columns columns labelled key, value, key,
\* value, ... and exactly ceil(len(M)/columns) rows: M's entries split into
\* exactly `columns` chunks of length ceil(len(M)/columns).
C11_ToDataframeShape ==
    pc # "call" =>
        /\ pc = "done"
        /\ result.columns = KeyValueLabels(args.columns)
        /\ Len(result.rows) = ToDfRows
        /\ \A r \in 1..Len(result.rows) : Len(result.rows[r]) = 2 * args.columns
        /\ ToDfChunks = args.columns

\* the cell of row r (from 0) in the key column (what = 1) or the value
\* column (what = 2) of the column pair numbered c (from 0)
ToDfCell(r, c, what) == result.rows[r + 1][2 * c + what]

\* the table lays the entries of M out column pair by column pair, the rest
\* filled up
ToDfLaidOut ==
    LET L == ToDfRows
        n == Len(args.mapping)
    IN  /\ \A j \in 0..(n - 1) :
              /\ ToDfCell(j % L, j \div L, 1) = args.mapping[j + 1].k
              /\ ToDfCell(j % L, j \div L, 2) = args.mapping[j + 1].v
              /\ Cardinality({rc \in (0..(L - 1)) \X (0..(args.columns - 1)) :
                                 ToDfCell(rc[1], rc[2], 1) = args.mapping[j + 1].k}) = 1
        /\ \A r \in 0..(L - 1), c \in 0..(args.columns - 1) :
              c * L + r >= n =>
                  /\ ToDfCell(r, c, 1) = args.fillvalue
                  /\ ToDfCell(r, c, 2) = args.fillvalue
                  /\ c = args.columns - 1

\* C12: to_dataframe lays the entries out column pair by column pair: with
\* L = ceil(len(M)/columns), the j-th entry of M (j from 0) has its key and
\* its value in row j mod L of the column pair numbered j div L, every entry
\* of M appears exactly once, and every remaining cell (only trailing rows
\* of the last column pair) holds fillvalue in its key and its value column.
C12_ToDataframeLayout ==
    pc # "call" => (pc = "done" /\ ToDfLaidOut)

--------------------------------------------------------------------------
(* kfltr, kswap, flaggregate, naggregate and maggregate on a heap of       *)
(* objects.  heap[id] holds the entries of the dict with identity id; a    *)
(* value is a scalar, None or the reference of another dict.  Every        *)
(* operator takes the heap and gives the heap it leaves, with the          *)
(* identity of what it returns.                                            *)

Ref(id) == [tag |-> "ref", id |-> id]

IsRef(v) == v.tag = "ref"

\* {}: a new empty dict
NewDict(h) == [heap |-> Append(h, <<>>), id |-> Len(h) + 1]

\* heap[id][key] = value
HeapStore(h, id, key, value) == [h EXCEPT ![id] = DictSet(@, key, value)]

\* the caller's objects for the nested value d: one dict for every inner
\* mapping, then the outer dict, whose identity is the last one
RECURSIVE LoadEntries(_, _, _, _)
LoadEntries(h, d, j, outer) ==
    IF j > Len(d) THEN Append(h, outer)
    ELSE IF IsDict(d[j].v)
         THEN LoadEntries(Append(h, d[j].v.items), d, j + 1,
                          Append(outer, [k |-> d[j].k, v |-> Ref(Len(h) + 1)]))
         ELSE LoadEntries(h, d, j + 1, Append(outer, d[j]))

Load(h, d) == LET h1 == LoadEntries(h, d, 1, <<>>) IN [heap |-> h1, id |-> Len(h1)]

\* the caller's objects for a list of nested values, with their identities
RECURSIVE LoadAll(_, _, _, _)
LoadAll(h, ds, i, ids) ==
    IF i > Len(ds) THEN [heap |-> h, ids |-> ids]
    ELSE LET one == Load(h, ds[i])
         IN  LoadAll(one.heap, ds, i + 1, Append(ids, one.id))

\* the nested value of the dict id
Value(h, id) ==
    [j \in 1..Len(h[id]) |->
        [k |-> h[id][j].k,
         v |-> IF IsRef(h[id][j].v) THEN DictVal(h[h[id][j].v.id]) ELSE h[id][j].v]]

\* a faulty variant of FlaggAggregated: the first mapping is the accumulator
FlaggAggregatedFirst(h, dctnrs) ==
    IF dctnrs = <<>> THEN NewDict(h) ELSE [heap |-> h, id |-> dctnrs[1]]

\* aggregated = {}
FlaggAggregated(h, dctnrs) == NewDict(h)

\* for key, value in dctnry.items(): aggregated[key] = value, on the heap
RECURSIVE HeapFlaggItems(_, _, _, _)
HeapFlaggItems(h, aggregated, dctnry, j) ==
    IF j > Len(h[dctnry]) THEN h
    ELSE HeapFlaggItems(HeapStore(h, aggregated, h[dctnry][j].k, h[dctnry][j].v),
                        aggregated, dctnry, j + 1)

RECURSIVE HeapFlaggDcts(_, _, _, _)
HeapFlaggDcts(h, aggregated, dctnrs, i) ==
    IF i > Len(dctnrs) THEN h
    ELSE HeapFlaggDcts(HeapFlaggItems(h, aggregated, dctnrs[i], 1), aggregated, dctnrs, i + 1)

\* [*dcts, kwargs] if kwargs else dcts, of identities
HeapWithKwargs(h, dcts, kwargs) == IF h[kwargs] # <<>> THEN Append(dcts, kwargs) ELSE dcts

HeapFlaggregate(h, dcts, kwargs) ==
    LET dctnrs == HeapWithKwargs(h, dcts, kwargs)
        new == FlaggAggregated(h, dctnrs)
    IN  [heap |-> HeapFlaggDcts(new.heap, new.id, dctnrs, 1), id |-> new.id]

\* if fltr in key or key in xcptns: tmp_dct.update({key: value}), on the heap
RECURSIVE HeapKfltrItems(_, _, _, _, _, _)
HeapKfltrItems(h, tmp_dct, dctnry, fltr, xcptns, j) ==
    IF j > Len(h[dctnry]) THEN h
    ELSE HeapKfltrItems(IF KfltrKeeps(h[dctnry][j].k, fltr, xcptns)
                        THEN HeapStore(h, tmp_dct, h[dctnry][j].k, h[dctnry][j].v)
                        ELSE h,
                        tmp_dct, dctnry, fltr, xcptns, j + 1)

\* the loop over the mappings: tmp_dct = {}; ...; filtered.append(tmp_dct)
RECURSIVE HeapKfltrDcts(_, _, _, _, _, _)
HeapKfltrDcts(h, filtered, dctnrs, fltr, xcptns, i) ==
    IF i > Len(dctnrs) THEN [heap |-> h, ids |-> filtered]
    ELSE LET new == NewDict(h)
         IN  HeapKfltrDcts(HeapKfltrItems(new.heap, new.id, dctnrs[i], fltr, xcptns, 1),
                           Append(filtered, new.id), dctnrs, fltr, xcptns, i + 1)

HeapKfltr(h, dcts, fltr, xcptns, kwargs) ==
    HeapKfltrDcts(h, <<>>, HeapWithKwargs(h, dcts, kwargs), fltr, xcptns, 1)

\* dd[key] of a defaultdict(dict): a missing key gets a new empty dict
HeapDefault(h, dd, key) ==
    IF DictHas(h[dd], key) THEN [heap |-> h, id |-> DictGet(h[dd], key).id]
    ELSE LET new == NewDict(h)
         IN  [heap |-> HeapStore(new.heap, dd, key, Ref(new.id)), id |-> new.id]

\* dict(d): a new dict with the entries of d
HeapDict(h, d) == [heap |-> Append(h, h[d]), id |-> Len(h) + 1]

\* dd[outer][inner] = value, dd being a defaultdict(dict)
HeapStoreNested(h, dd, outer, inner, value) ==
    LET at == HeapDefault(h, dd, outer)
    IN  HeapStore(at.heap, at.id, inner, value)

\* for subkey, value in nstd_dct[tlkey].items():
\*     key_swapped[subkey].update({tlkey: value})
RECURSIVE HeapKswapItems(_, _, _, _, _)
HeapKswapItems(h, key_swapped, tlkey, items, j) ==
    IF j > Len(h[items]) THEN h
    ELSE HeapKswapItems(HeapStoreNested(h, key_swapped, h[items][j].k, tlkey, h[items][j].v),
                        key_swapped, tlkey, items, j + 1)

\* for tlkey in nstd_dct.keys(): if isinstance(nstd_dct[tlkey], dict): ...
RECURSIVE HeapKswapTlkeys(_, _, _, _)
HeapKswapTlkeys(h, key_swapped, nstd_dct, t) ==
    IF t > Len(h[nstd_dct]) THEN h
    ELSE HeapKswapTlkeys(IF IsRef(h[nstd_dct][t].v)
                         THEN HeapKswapItems(h, key_swapped, h[nstd_dct][t].k,
                                             h[nstd_dct][t].v.id, 1)
                         ELSE h,
                         key_swapped, nstd_dct, t + 1)

HeapKswap(h, nstd_dct) ==
    LET key_swapped == NewDict(h)
    IN  HeapDict(HeapKswapTlkeys(key_swapped.heap, key_swapped.id, nstd_dct, 1),
                 key_swapped.id)

\* for key, value in dctnry[tlky].items(): aggregated[tlky][key] = value
RECURSIVE HeapNaggItems(_, _, _, _, _)
HeapNaggItems(h, aggregated, tlky, items, j) ==
    IF j > Len(h[items]) THEN h
    ELSE HeapNaggItems(HeapStoreNested(h, aggregated, tlky, h[items][j].k, h[items][j].v),
                       aggregated, tlky, items, j + 1)

\* for tlky in dctnry: ...
RECURSIVE HeapNaggTlkys(_, _, _, _)
HeapNaggTlkys(h, aggregated, dctnry, t) ==
    IF t > Len(h[dctnry]) THEN h
    ELSE HeapNaggTlkys(HeapNaggItems(h, aggregated, h[dctnry][t].k, h[dctnry][t].v.id, 1),
                       aggregated, dctnry, t + 1)

\* for dctnry in nstd_dcts: ...
RECURSIVE HeapNaggDcts(_, _, _, _)
HeapNaggDcts(h, aggregated, nstd_dcts, i) ==
    IF i > Len(nstd_dcts) THEN h
    ELSE HeapNaggDcts(HeapNaggTlkys(h, aggregated, nstd_dcts[i], 1), aggregated, nstd_dcts, i + 1)

HeapNaggregate(h, nstd_dcts) ==
    LET aggregated == NewDict(h)
    IN  HeapDict(HeapNaggDcts(aggregated.heap, aggregated.id, nstd_dcts, 1), aggregated.id)

\* for kwarg in {**aggregates, **nested_aggregates[tlky], **kwargs}: ...;
\* merged holds the keys of that dict, nested is nested_aggregates[tlky]
RECURSIVE HeapMaggKwargs(_, _, _, _, _, _, _, _)
HeapMaggKwargs(h, aggregated, tlky, merged, j, aggregates, nested, kwargs) ==
    IF j > Len(merged) THEN h
    ELSE HeapMaggKwargs(
             HeapStoreNested(h, aggregated, tlky, merged[j].k,
                             MaggResolve(tlky, merged[j].k, h[aggregates], h[nested],
                                         Value(h, kwargs))),
             aggregated, tlky, merged, j + 1, aggregates, nested, kwargs)

\* for tlky in tlkys: ...
RECURSIVE HeapMaggTlkys(_, _, _, _, _, _, _)
HeapMaggTlkys(h, aggregated, tlkys, t, aggregates, nested_aggregates, kwargs) ==
    IF t > Len(tlkys) THEN h
    ELSE LET nested == HeapDefault(h, nested_aggregates, tlkys[t])
             merged == FlaggDcts(<<>>, <<h[aggregates], nested.heap[nested.id], h[kwargs]>>, 1)
         IN  HeapMaggTlkys(HeapMaggKwargs(nested.heap, aggregated, tlkys[t], merged, 1,
                                          aggregates, nested.id, kwargs),
                           aggregated, tlkys, t + 1, aggregates, nested_aggregates, kwargs)

HeapMaggregate(h, tlkys, dcts, nstd_dcts, kwargs) ==
    LET aggregated == NewDict(h)
        no_kwargs == NewDict(aggregated.heap)
        aggregates == HeapFlaggregate(no_kwargs.heap, dcts, no_kwargs.id)
        naggregated == HeapNaggregate(aggregates.heap, nstd_dcts)
        nested_aggregates == HeapDict(naggregated.heap, naggregated.id)
    IN  HeapDict(HeapMaggTlkys(nested_aggregates.heap, aggregated.id, tlkys, 1,
                               aggregates.id, nested_aggregates.id, kwargs),
                 aggregated.id)

--------------------------------------------------------------------------
(* The five functions called on the caller's objects.  args holds the      *)
(* arguments as values, heap the caller's objects for them, loaded in the  *)
(* order of Given; result is the identity of the returned dict, for kfltr  *)
(* the identities in the returned list.                                    *)

IsKswap == "nstd_dct" \in DOMAIN args
IsNaggregate == DOMAIN args = {"nstd_dcts"}
IsMaggregate == "tlkys" \in DOMAIN args

\* the calls made
OnHeapCalls ==
    [dcts : SeqsUpTo(StrDicts, 1), fltr : Strs, xcptns : Xcptns, kwargs : KwDicts]
    \cup [nstd_dct : OrderedDicts(OuterKeys, Vals \cup FlatDictVals, Cardinality(OuterKeys))]
    \cup [dcts : SeqsUpTo(FlatDicts, MaxDcts), kwargs : FlatDicts]
    \cup {[nstd_dcts |-> [i \in 1..Len(shapes) |-> NestedWith(shapes[i], Scalar(i))]] :
             shapes \in SeqsUpTo(NestedDicts(Scalar(0)), MaxNstdDcts)}
    \cup [tlkys : SeqsUpTo(TopKeys, MaxTlkys), dcts : SeqsUpTo(MaggFlatDicts, 1),
          nstd_dcts : SeqsUpTo(MaggNestedDicts, 1), kwargs : MaggKwargDicts]

\* the mappings passed in by the call a
Given(a) ==
    IF "nstd_dct" \in DOMAIN a THEN <<a.nstd_dct>>
    ELSE IF DOMAIN a = {"nstd_dcts"} THEN a.nstd_dcts
    ELSE IF "tlkys" \in DOMAIN a THEN a.dcts \o a.nstd_dcts \o <<a.kwargs>>
    ELSE a.dcts \o <<a.kwargs>>

\* the caller's objects for the call a
Passed(a) == LoadAll(<<>>, Given(a), 1, <<>>)

\* identities of the arguments dcts, nstd_dcts and kwargs of the call a
PassedDcts(a) == SubSeq(Passed(a).ids, 1, Len(a.dcts))
PassedNstdDcts(a) ==
    IF "dcts" \in DOMAIN a
    THEN SubSeq(Passed(a).ids, Len(a.dcts) + 1, Len(a.dcts) + Len(a.nstd_dcts))
    ELSE Passed(a).ids
PassedKwargs(a) == Passed(a).ids[Len(Passed(a).ids)]

InitOnHeap ==
    /\ args \in OnHeapCalls
    /\ heap = Passed(args).heap
    /\ pc = "call"
    /\ result = NoResult
    /\ queue = <<>>
    /\ memo = {}
    /\ level = 0

OnHeapKfltr ==
    /\ IsKfltr
    /\ pc = "call"
    /\ \E out \in {HeapKfltr(heap, PassedDcts(args), args.fltr, args.xcptns, PassedKwargs(args))} :
           heap' = out.heap /\ result' = out.ids
    /\ pc' = "done"
    /\ UNCHANGED <<args, queue, memo, level>>

OnHeapKswap ==
    /\ IsKswap
    /\ pc = "call"
    /\ \E out \in {HeapKswap(heap, Passed(args).ids[1])} :
           heap' = out.heap /\ result' = out.id
    /\ pc' = "done"
    /\ UNCHANGED <<args, queue, memo, level>>

OnHeapFlaggregate ==
    /\ IsFlaggregate
    /\ pc = "call"
    /\ \E out \in {HeapFlaggregate(heap, PassedDcts(args), PassedKwargs(args))} :
           heap' = out.heap /\ result' = out.id
    /\ pc' = "done"
    /\ UNCHANGED <<args, queue, memo, level>>

OnHeapNaggregate ==
    /\ IsNaggregate
    /\ pc = "call"
    /\ \E out \in {HeapNaggregate(heap, PassedNstdDcts(args))} :
           heap' = out.heap /\ result' = out.id
    /\ pc' = "done"
    /\ UNCHANGED <<args, queue, memo, level>>

OnHeapMaggregate ==
    /\ IsMaggregate
    /\ pc = "call"
    /\ \E out \in {HeapMaggregate(heap, args.tlkys, PassedDcts(args), PassedNstdDcts(args),
                                 PassedKwargs(args))} :
           heap' = out.heap /\ result' = out.id
    /\ pc' = "done"
    /\ UNCHANGED <<args, queue, memo, level>>

NextOnHeap ==
    \/ OnHeapKfltr
    \/ OnHeapKswap
    \/ OnHeapFlaggregate
    \/ OnHeapNaggregate
    \/ OnHeapMaggregate

SpecOnHeap == InitOnHeap /\ [][NextOnHeap]_vars

\* the nested value of everything returned
Returned ==
    IF IsKfltr THEN [i \in 1..Len(result) |-> Value(heap, result[i])]
    ELSE Value(heap, result)

\* what the functions return when computed on values
ReturnedValue ==
    IF IsKfltr THEN kfltr(args.dcts, args.fltr, args.xcptns, args.kwargs)
    ELSE IF IsKswap THEN kswap(args.nstd_dct)
    ELSE IF IsFlaggregate THEN flaggregate(args.dcts, args.kwargs)
    ELSE IF IsNaggregate THEN naggregate(args.nstd_dcts)
    ELSE maggregate(args.tlkys, args.dcts, args.nstd_dcts, args.kwargs)

\* the functions on objects return what the functions on values return
OnHeapAgrees == pc = "done" => Returned = ReturnedValue

\* identities of the returned outer mappings
Outer == IF IsKfltr THEN {result[i] : i \in 1..Len(result)} ELSE {result}

\* identities of the inner mappings built by kswap, naggregate and maggregate
Inner ==
    IF IsKswap \/ IsNaggregate \/ IsMaggregate
    THEN {heap[result][j].v.id : j \in {i \in 1..Len(heap[result]) : IsRef(heap[result][i].v)}}
    ELSE {}

\* C22: a call of kfltr, kswap, flaggregate, naggregate or maggregate leaves
\* every object that exists before it (the mappings passed in, outer and
\* inner) with exactly the entries it had, and the returned outer mapping and
\* the inner mappings built by kswap, naggregate and maggregate are objects
\* that did not exist before the call.
C22_NonDestructive ==
    [][
        /\ Len(heap') >= Len(heap)
        /\ \A id \in 1..Len(heap) : heap'[id] = heap[id]
        /\ \A id \in Outer' \cup Inner' : id > Len(heap)
    ]_vars

\* a call has returned a mapping holding inner mappings it built, after it
\* was given mappings with inner mappings
C22_Witness ==
    /\ pc = "done"
    /\ IsMaggregate
    /\ args.nstd_dcts # <<>>
    /\ \E t \in 1..Len(args.nstd_dcts[1]) : args.nstd_dcts[1][t].v.items # <<>>
    /\ \E id \in Inner : heap[id] # <<>>

==========================================================================
